---- MODULE Spec2Model ----
(***************************************************************************)
(* Model of handeyecalibration/handeye_calibrator.py: HandeyeCalibrator.   *)
(* The calibrator collects {robot, optical} transform pairs from tf and    *)
(* hands them to the ViSP compute_effector_camera_quick service.           *)
(*                                                                         *)
(* One external driver calls take_sample, remove_sample and                *)
(* compute_calibration one after the other.  take_sample and               *)
(* compute_calibration are split at their blocking external calls          *)
(* (waitForTransform, lookupTransform, the service call), whose outcome is *)
(* chosen by the environment.                                              *)
(***************************************************************************)
EXTENDS Integers, Sequences, FiniteSets, TLC

(* ------------------------------ bounds --------------------------------- *)
\* latest clock value (seconds) the model explores
MaxTime == 41
\* seconds a transform may take to become available when it does not time out
TfDelay == 5
\* number of take_sample calls that get past both waits
MaxTakes == 4
\* clock value at construction
StartTime == 1

(* ------------------------- program constants --------------------------- *)
MIN_SAMPLES == 2
\* rospy.Duration(10) in _wait_for_transforms, robot pair and optical pair
RobotWaitTimeout == 10
OpticalWaitTimeout == 10

\* rospy.get_param defaults
tool_frame == "tool0"
base_link_frame == "base_link"
optical_origin_frame == "optical_origin"
optical_target_frame == "optical_target"

None == <<>>
\* the `time=None` default of _get_transforms (clock values start above it)
NoTime == 0

VARIABLES
    eye_on_hand,   \* self.eye_on_hand
    samples,       \* self.samples: sequence of [robot |-> tuple, optical |-> tuple]
    clock,         \* rospy.Time.now(), in seconds
    pc,            \* where the driver's current call stands
    now,           \* the local `now` of _wait_for_transforms
    time,          \* the local `time` of _get_transforms
    rob,           \* the local `rob` of _get_transforms
    opt,           \* the local `opt` of _get_transforms
    calls,         \* the tf calls issued by the current (or last) operation
    results,       \* how each of those calls ended: "ok" or the exception raised
    request,       \* the arguments of the last call of self.calibrate
    nsolve,        \* number of calls of self.calibrate in the current (or last) operation
    reply,         \* what the service did with that call
    outcome,       \* how the last completed operation ended
    passed,        \* number of take_sample calls so far whose waits did not time out
    unavailable,   \* number of take_sample calls so far that failed in a lookup
    removed,       \* whether a remove_sample call has deleted a sample so far
    service_waits  \* number of rospy.wait_for_service calls completed so far

vars == <<eye_on_hand, samples, clock, pc, now, time, rob, opt, calls, results, request,
          nsolve, reply, outcome, passed, unavailable, removed, service_waits>>

(* ------------------------------ tf ------------------------------------- *)
\* The frame tree as tf reports it: the tool moves along x and the target
\* along y as time passes; the opposite direction is the inverse transform.
\* A tf transform is the tuple (translation, rotation quaternion).
TfTree(source, target, t) ==
    IF source = base_link_frame /\ target = tool_frame
        THEN << <<t, 0, 0>>, <<0, 0, 0, 1>> >>
    ELSE IF source = tool_frame /\ target = base_link_frame
        THEN << <<0 - t, 0, 0>>, <<0, 0, 0, 1>> >>
    ELSE IF source = optical_origin_frame /\ target = optical_target_frame
        THEN << <<0, t, 0>>, <<0, 0, 0, 1>> >>
    ELSE << <<0, 0 - t, 0>>, <<0, 0, 0, 1>> >>

\* one entry of the call log
TfCall(fn, source, target, t, timeout) ==
    [fn |-> fn, source |-> source, target |-> target, time |-> t, timeout |-> timeout]

(* ----------------------------- outcomes -------------------------------- *)
Outcome(op, status, exception, log, n, index, result) ==
    [op |-> op, status |-> status, exception |-> exception, log |-> log,
     needed |-> n, index |-> index, result |-> result]

\* the service's answer: nothing yet, a response, or rospy.ServiceException
Reply(status, effector_camera) == [status |-> status, effector_camera |-> effector_camera]

NoReply == Reply("none", None)

NoOutcome == Outcome("none", "returned", "none", "none", 0, 0, None)

(* --------------------------- pure helpers ------------------------------ *)
Vector3(t) == [x |-> t[1], y |-> t[2], z |-> t[3]]
Quaternion(q) == [x |-> q[1], y |-> q[2], z |-> q[3], w |-> q[4]]
Transform(transl, rot) == [translation |-> transl, rotation |-> rot]

tuple_to_visp_transform(tf_t) == Transform(Vector3(tf_t[1]), Quaternion(tf_t[2]))

TransformArray(frame_id, transforms) ==
    [header |-> [frame_id |-> frame_id], transforms |-> transforms]

\* slip: the camera-marker list is built by inserting at the front
get_visp_samples_reversed(ss) ==
    << TransformArray(optical_origin_frame,
                      [i \in 1..Len(ss) |-> tuple_to_visp_transform(ss[i].robot)]),
       TransformArray(optical_origin_frame,
                      [i \in 1..Len(ss) |->
                          tuple_to_visp_transform(ss[Len(ss) + 1 - i].optical)]) >>

\* get_visp_samples: returns <<hand_world_samples, camera_marker_samples>>
get_visp_samples(ss) ==
    << TransformArray(optical_origin_frame,
                      [i \in 1..Len(ss) |-> tuple_to_visp_transform(ss[i].robot)]),
       TransformArray(optical_origin_frame,
                      [i \in 1..Len(ss) |-> tuple_to_visp_transform(ss[i].optical)]) >>

\* slip: the deleted position is taken one too low
PyDel_off_by_one(ss, index) ==
    LET k == IF index < 0 THEN Len(ss) + index ELSE index
    IN  [i \in 1..(Len(ss) - 1) |-> IF i < k THEN ss[i] ELSE ss[i + 1]]

\* del self.samples[index] for an index Python accepts (negative ones count
\* from the end)
PyDel(ss, index) ==
    LET k == IF index < 0 THEN Len(ss) + index + 1 ELSE index + 1
    IN  [i \in 1..(Len(ss) - 1) |-> IF i < k THEN ss[i] ELSE ss[i + 1]]

\* slip: only the upper bound is tested, so Python's negative indices delete
\* from the end
remove_sample_no_lower_bound(ss, index) ==
    IF index < Len(ss) /\ 0 - index <= Len(ss) THEN PyDel(ss, index) ELSE ss

\* the store after remove_sample(index)
remove_sample(ss, index) ==
    IF 0 <= index /\ index < Len(ss) THEN PyDel(ss, index) ELSE ss

\* slip: the two branches of the eye_on_hand test are exchanged
robot_lookup_frames_swapped(eoh) ==
    IF eoh THEN <<tool_frame, base_link_frame>>
           ELSE <<base_link_frame, tool_frame>>

\* the frames of the robot-side lookup in _get_transforms
robot_lookup_frames(eoh) ==
    IF eoh THEN <<base_link_frame, tool_frame>>
           ELSE <<tool_frame, base_link_frame>>

optical_lookup_frames == <<optical_origin_frame, optical_target_frame>>

\* slip: the guard lets a single sample through
too_few_samples_off_by_one(n) == n < MIN_SAMPLES - 1

\* the guard of compute_calibration
too_few_samples(n) == n < MIN_SAMPLES

\* the number logged by "%d more samples needed..."
samples_needed(n) == MIN_SAMPLES - n

(* ------------------------------ Init ----------------------------------- *)
Init ==
    /\ eye_on_hand \in BOOLEAN
    /\ samples = <<>>
    /\ clock = StartTime
    /\ pc = "idle"
    /\ now = NoTime
    /\ time = NoTime
    /\ rob = None
    /\ opt = None
    /\ calls = <<>>
    /\ results = <<>>
    /\ request = None
    /\ nsolve = 0
    /\ reply = NoReply
    /\ outcome = NoOutcome
    /\ passed = 0
    /\ unavailable = 0
    /\ removed = FALSE
    /\ service_waits = 1

(* ---------------------------- take_sample ------------------------------ *)
\* what every operation resets when it starts: the logs of the one before
ResetLogs ==
    /\ calls' = <<>>
    /\ results' = <<>>
    /\ nsolve' = 0
    /\ request' = None
    /\ reply' = NoReply

\* take_sample -> _get_transforms(time=None) -> _wait_for_transforms:
\* now = rospy.Time.now()
TakeSampleBegin ==
    /\ pc = "idle"
    /\ passed < MaxTakes
    /\ clock + RobotWaitTimeout + OpticalWaitTimeout <= MaxTime
    /\ now' = clock
    /\ time' = NoTime
    /\ pc' = "wait_robot"
    /\ ResetLogs
    /\ rob' = None
    /\ opt' = None
    /\ UNCHANGED <<eye_on_hand, samples, clock, outcome, passed, unavailable, removed, service_waits>>

\* slip: what was looked up before the exception is stored all the same
TakeSampleRaise_partial(exception) ==
    /\ pc' = "idle"
    /\ outcome' = Outcome("take_sample", "raised", exception, "none", 0, 0, None)
    /\ results' = Append(results, exception)
    /\ rob' = None
    /\ opt' = None
    /\ samples' = IF rob # None THEN Append(samples, [robot |-> rob, optical |-> None])
                                ELSE samples

\* an exception leaves _get_transforms and take_sample: nothing catches it,
\* and the append of take_sample is not reached
TakeSampleRaise(exception) ==
    /\ pc' = "idle"
    /\ outcome' = Outcome("take_sample", "raised", exception, "none", 0, 0, None)
    /\ results' = Append(results, exception)
    /\ rob' = None
    /\ opt' = None
    /\ samples' = samples

\* slip: the timeout of the robot wait is caught and the call goes on
WaitRobot_swallow_timeout ==
    /\ pc = "wait_robot"
    /\ calls' = Append(calls, TfCall("waitForTransform", base_link_frame, tool_frame,
                                     now, RobotWaitTimeout))
    /\ \/ /\ \E d \in {0, TfDelay} : clock' = clock + d
          /\ results' = Append(results, "ok")
       \/ /\ clock' = clock + RobotWaitTimeout
          /\ results' = Append(results, "tf.Exception")
    /\ pc' = "wait_optical"
    /\ UNCHANGED <<eye_on_hand, samples, now, time, rob, opt, request, nsolve, reply, outcome,
                   passed, unavailable, removed, service_waits>>

\* self.listener.waitForTransform(base_link_frame, tool_frame, now, Duration(10))
WaitRobot ==
    /\ pc = "wait_robot"
    /\ calls' = Append(calls, TfCall("waitForTransform", base_link_frame, tool_frame,
                                     now, RobotWaitTimeout))
    /\ \/ /\ \E d \in {0, TfDelay} : clock' = clock + d
          /\ pc' = "wait_optical"
          /\ results' = Append(results, "ok")
          /\ UNCHANGED <<outcome, rob, opt, samples>>
       \/ /\ clock' = clock + RobotWaitTimeout
          /\ TakeSampleRaise("tf.Exception")
    /\ UNCHANGED <<eye_on_hand, now, time, request, nsolve, reply, passed, unavailable,
                   removed, service_waits>>

\* rospy.Duration(60), the optical timeout of _wait_for_tf_init
InitOpticalWaitTimeout == 60

\* slip: the optical wait is given the timeout of _wait_for_tf_init
WaitOptical_init_timeout ==
    /\ pc = "wait_optical"
    /\ calls' = Append(calls, TfCall("waitForTransform", optical_origin_frame,
                                     optical_target_frame, now, InitOpticalWaitTimeout))
    /\ \/ /\ \E d \in {0, TfDelay} : clock' = clock + d
          /\ time' = now
          /\ pc' = "lookup_robot"
          /\ results' = Append(results, "ok")
          /\ passed' = passed + 1
          /\ UNCHANGED <<outcome, rob, opt, samples>>
       \/ /\ clock' = clock + OpticalWaitTimeout
          /\ TakeSampleRaise("tf.Exception")
          /\ UNCHANGED <<passed, time>>
    /\ UNCHANGED <<eye_on_hand, now, request, nsolve, reply, unavailable, removed,
                   service_waits>>

\* slip: the time handed to the lookups is read again after the waits
WaitOptical_fresh_time ==
    /\ pc = "wait_optical"
    /\ calls' = Append(calls, TfCall("waitForTransform", optical_origin_frame,
                                     optical_target_frame, now, OpticalWaitTimeout))
    /\ \/ /\ \E d \in {0, TfDelay} : clock' = clock + d
          /\ time' = clock'
          /\ pc' = "lookup_robot"
          /\ results' = Append(results, "ok")
          /\ passed' = passed + 1
          /\ UNCHANGED <<outcome, rob, opt, samples>>
       \/ /\ clock' = clock + OpticalWaitTimeout
          /\ TakeSampleRaise("tf.Exception")
          /\ UNCHANGED <<passed, time>>
    /\ UNCHANGED <<eye_on_hand, now, request, nsolve, reply, unavailable, removed, service_waits>>

\* self.listener.waitForTransform(optical_origin_frame, optical_target_frame, now,
\* Duration(10)); return now, which _get_transforms assigns to time
WaitOptical ==
    /\ pc = "wait_optical"
    /\ calls' = Append(calls, TfCall("waitForTransform", optical_origin_frame,
                                     optical_target_frame, now, OpticalWaitTimeout))
    /\ \/ /\ \E d \in {0, TfDelay} : clock' = clock + d
          /\ time' = now
          /\ pc' = "lookup_robot"
          /\ results' = Append(results, "ok")
          /\ passed' = passed + 1
          /\ UNCHANGED <<outcome, rob, opt, samples>>
       \/ /\ clock' = clock + OpticalWaitTimeout
          /\ TakeSampleRaise("tf.Exception")
          /\ UNCHANGED <<passed, time>>
    /\ UNCHANGED <<eye_on_hand, now, request, nsolve, reply, unavailable, removed, service_waits>>

\* rob = self.listener.lookupTransform(..., time), direction by eye_on_hand
LookupRobot ==
    /\ pc = "lookup_robot"
    /\ LET f == robot_lookup_frames(eye_on_hand) IN
       /\ calls' = Append(calls, TfCall("lookupTransform", f[1], f[2], time, 0))
       /\ \/ /\ rob' = TfTree(f[1], f[2], time)
             /\ pc' = "lookup_optical"
             /\ results' = Append(results, "ok")
             /\ UNCHANGED <<outcome, opt, samples, unavailable>>
          \/ /\ TakeSampleRaise("tf.LookupException")
             /\ unavailable' = unavailable + 1
    /\ UNCHANGED <<eye_on_hand, clock, now, time, request, nsolve, reply, passed, removed, service_waits>>

\* opt = self.listener.lookupTransform(optical_origin_frame, optical_target_frame, time)
LookupOptical ==
    /\ pc = "lookup_optical"
    /\ LET f == optical_lookup_frames IN
       /\ calls' = Append(calls, TfCall("lookupTransform", f[1], f[2], time, 0))
       /\ \/ /\ opt' = TfTree(f[1], f[2], time)
             /\ pc' = "append"
             /\ results' = Append(results, "ok")
             /\ UNCHANGED <<outcome, rob, samples, unavailable>>
          \/ /\ TakeSampleRaise("tf.LookupException")
             /\ unavailable' = unavailable + 1
    /\ UNCHANGED <<eye_on_hand, clock, now, time, request, nsolve, reply, passed, removed, service_waits>>

\* slip: the sample is appended twice
append_sample_twice(ss, r, o) ==
    Append(Append(ss, [robot |-> r, optical |-> o]), [robot |-> r, optical |-> o])

\* slip: the list is replaced instead of extended
append_sample_overwrite(ss, r, o) == <<[robot |-> r, optical |-> o]>>

\* self.samples.append(transforms), transforms = {'robot': rob, 'optical': opt}
append_sample(ss, r, o) == Append(ss, [robot |-> r, optical |-> o])

\* _get_transforms returns the dict and take_sample appends it
TakeSampleAppend ==
    /\ pc = "append"
    /\ samples' = append_sample(samples, rob, opt)
    /\ pc' = "idle"
    /\ outcome' = Outcome("take_sample", "returned", "none", "none", 0, 0, None)
    /\ rob' = None
    /\ opt' = None
    /\ UNCHANGED <<eye_on_hand, clock, now, time, calls, results, request, nsolve, reply, passed,
                   unavailable, removed, service_waits>>

(* --------------------------- remove_sample ----------------------------- *)
RemoveSample ==
    /\ pc = "idle"
    /\ \E index \in -2 .. (Len(samples) + 1) :
          /\ samples' = remove_sample(samples, index)
          /\ outcome' = Outcome("remove_sample", "returned", "none", "none", 0, index, None)
          /\ removed' = (removed \/ samples' # samples)
    /\ ResetLogs
    /\ UNCHANGED <<eye_on_hand, clock, pc, now, time, rob, opt, passed, unavailable,
                   service_waits>>

(* ------------------------- compute_calibration ------------------------- *)
\* what the service may answer: result.effector_camera
SolverTransforms ==
    { Transform(Vector3(<<0, 0, 0>>), Quaternion(<<0, 0, 0, 1>>)),
      Transform(Vector3(<<1, 2, 3>>), Quaternion(<<1, 0, 0, 0>>)) }

\* slip: the quaternion is written out as (w, x, y, z)
result_tf_wxyz(effector_camera) ==
    Transform(<<effector_camera.translation.x, effector_camera.translation.y,
                effector_camera.translation.z>>,
              <<effector_camera.rotation.w, effector_camera.rotation.x,
                effector_camera.rotation.y, effector_camera.rotation.z>>)

\* result_tf = Transform((transl.x, transl.y, transl.z), (rot.x, rot.y, rot.z, rot.w))
result_tf(effector_camera) ==
    Transform(<<effector_camera.translation.x, effector_camera.translation.y,
                effector_camera.translation.z>>,
              <<effector_camera.rotation.x, effector_camera.rotation.y,
                effector_camera.rotation.z, effector_camera.rotation.w>>)

\* HandeyeCalibration(eye_on_hand, base_link_frame, tool_frame, optical_origin_frame, transformation)
HandeyeCalibration(eoh, base, tool, origin, transformation) ==
    [eye_on_hand |-> eoh, base_link_frame |-> base, tool_frame |-> tool,
     optical_origin_frame |-> origin, transform |-> transformation]

\* slip: the two sequences are passed in the order get_visp_samples returns them
calibrate_args_as_returned(hand_world_samples, camera_marker_samples) ==
    <<hand_world_samples, camera_marker_samples>>

\* the positional arguments of self.calibrate(camera_marker_samples, hand_world_samples)
calibrate_args(hand_world_samples, camera_marker_samples) ==
    <<camera_marker_samples, hand_world_samples>>

\* slip: every call waits for the service once more before using it
ComputeCalibration_waits_again ==
    /\ pc = "idle"
    /\ calls' = <<>>
    /\ results' = <<>>
    /\ reply' = NoReply
    /\ IF too_few_samples(Len(samples))
         THEN /\ outcome' = Outcome("compute_calibration", "returned", "none",
                                    "logwarn: more samples needed",
                                    samples_needed(Len(samples)), 0, None)
              /\ nsolve' = 0
              /\ request' = None
              /\ UNCHANGED pc
         ELSE LET visp == get_visp_samples(samples)
                  hand_world_samples == visp[1]
                  camera_marker_samples == visp[2]
              IN  IF Len(hand_world_samples.transforms) # Len(camera_marker_samples.transforms)
                      THEN /\ outcome' = Outcome("compute_calibration", "returned", "none",
                                                 "logerr: Different numbers of samples",
                                                 0, 0, None)
                           /\ nsolve' = 0
                           /\ request' = None
                           /\ UNCHANGED pc
                      ELSE /\ request' = calibrate_args(hand_world_samples, camera_marker_samples)
                           /\ nsolve' = 1
                           /\ pc' = "solving"
                           /\ UNCHANGED outcome
    /\ UNCHANGED <<eye_on_hand, samples, clock, now, time, rob, opt, passed, unavailable,
                   removed>>
    /\ service_waits' = service_waits + 1

\* compute_calibration up to the service call: the sample-count guard,
\* get_visp_samples, the length check and self.calibrate(camera_marker_samples,
\* hand_world_samples)
ComputeCalibration ==
    /\ pc = "idle"
    /\ calls' = <<>>
    /\ results' = <<>>
    /\ reply' = NoReply
    /\ IF too_few_samples(Len(samples))
         THEN /\ outcome' = Outcome("compute_calibration", "returned", "none",
                                    "logwarn: more samples needed",
                                    samples_needed(Len(samples)), 0, None)
              /\ nsolve' = 0
              /\ request' = None
              /\ UNCHANGED pc
         ELSE LET visp == get_visp_samples(samples)
                  hand_world_samples == visp[1]
                  camera_marker_samples == visp[2]
              IN  IF Len(hand_world_samples.transforms) # Len(camera_marker_samples.transforms)
                      THEN /\ outcome' = Outcome("compute_calibration", "returned", "none",
                                                 "logerr: Different numbers of samples",
                                                 0, 0, None)
                           /\ nsolve' = 0
                           /\ request' = None
                           /\ UNCHANGED pc
                      ELSE /\ request' = calibrate_args(hand_world_samples, camera_marker_samples)
                           /\ nsolve' = 1
                           /\ pc' = "solving"
                           /\ UNCHANGED outcome
    /\ UNCHANGED <<eye_on_hand, samples, clock, now, time, rob, opt, passed, unavailable,
                   removed, service_waits>>

\* slip: a calibration that succeeded uses the samples up
SolverRespond_consume ==
    /\ pc = "solving"
    /\ \E effector_camera \in SolverTransforms :
          /\ reply' = Reply("response", <<effector_camera>>)
          /\ outcome' = Outcome("compute_calibration", "returned", "none", "none", 0, 0,
                             << HandeyeCalibration(eye_on_hand, base_link_frame, tool_frame,
                                                   optical_origin_frame,
                                                   result_tf(effector_camera)) >>)
    /\ pc' = "idle"
    /\ samples' = <<>>
    /\ UNCHANGED <<eye_on_hand, clock, now, time, rob, opt, calls, results, request, nsolve,
                   passed, unavailable, removed, service_waits>>

\* the service answers: the try block builds and returns the HandeyeCalibration
SolverRespond ==
    /\ pc = "solving"
    /\ \E effector_camera \in SolverTransforms :
          /\ reply' = Reply("response", <<effector_camera>>)
          /\ outcome' = Outcome("compute_calibration", "returned", "none", "none", 0, 0,
                             << HandeyeCalibration(eye_on_hand, base_link_frame, tool_frame,
                                                   optical_origin_frame,
                                                   result_tf(effector_camera)) >>)
    /\ pc' = "idle"
    /\ UNCHANGED <<eye_on_hand, samples, clock, now, time, rob, opt, calls, results, request, nsolve,
                   passed, unavailable, removed, service_waits>>

\* slip: a failed call is sent to the service once more
SolverFail_retry ==
    /\ pc = "solving"
    /\ reply' = Reply("rospy.ServiceException", None)
    /\ IF nsolve < 2
         THEN /\ nsolve' = nsolve + 1
              /\ UNCHANGED <<pc, outcome>>
         ELSE /\ outcome' = Outcome("compute_calibration", "returned", "none",
                                    "logerr: Calibration failed", 0, 0, None)
              /\ pc' = "idle"
              /\ UNCHANGED nsolve
    /\ samples' = samples
    /\ UNCHANGED <<eye_on_hand, clock, now, time, rob, opt, calls, results, request,
                   passed, unavailable, removed, service_waits>>

\* slip: the samples are dropped when the service fails
SolverFail_clear ==
    /\ pc = "solving"
    /\ reply' = Reply("rospy.ServiceException", None)
    /\ outcome' = Outcome("compute_calibration", "returned", "none",
                          "logerr: Calibration failed", 0, 0, None)
    /\ pc' = "idle"
    /\ samples' = <<>>
    /\ UNCHANGED <<eye_on_hand, clock, now, time, rob, opt, calls, results, request, nsolve,
                   passed, unavailable, removed, service_waits>>

\* slip: the except branch hands back a calibration with the identity transform
SolverFail_default_result ==
    /\ pc = "solving"
    /\ reply' = Reply("rospy.ServiceException", None)
    /\ outcome' = Outcome("compute_calibration", "returned", "none",
                          "logerr: Calibration failed", 0, 0,
                          << HandeyeCalibration(eye_on_hand, base_link_frame, tool_frame,
                                                optical_origin_frame,
                                                Transform(<<0, 0, 0>>, <<0, 0, 0, 1>>)) >>)
    /\ pc' = "idle"
    /\ samples' = samples
    /\ UNCHANGED <<eye_on_hand, clock, now, time, rob, opt, calls, results, request, nsolve,
                   passed, unavailable, removed, service_waits>>

\* the call raises rospy.ServiceException: logged, return None
SolverFail ==
    /\ pc = "solving"
    /\ reply' = Reply("rospy.ServiceException", None)
    /\ outcome' = Outcome("compute_calibration", "returned", "none",
                          "logerr: Calibration failed", 0, 0, None)
    /\ pc' = "idle"
    /\ samples' = samples
    /\ UNCHANGED <<eye_on_hand, clock, now, time, rob, opt, calls, results, request, nsolve,
                   passed, unavailable, removed, service_waits>>

\* the service never answers: rospy's ServiceProxy call takes no timeout, so
\* the driver stays inside self.calibrate for good
SolverSilent ==
    /\ pc = "solving"
    /\ pc' = "blocked"
    /\ reply' = Reply("never", None)
    /\ UNCHANGED <<eye_on_hand, samples, clock, now, time, rob, opt, calls, results, request,
                   nsolve, outcome, passed, unavailable, removed, service_waits>>

Next ==
    \/ TakeSampleBegin
    \/ WaitRobot
    \/ WaitOptical
    \/ LookupRobot
    \/ LookupOptical
    \/ TakeSampleAppend
    \/ RemoveSample
    \/ ComputeCalibration
    \/ SolverRespond
    \/ SolverFail
    \/ SolverSilent

Spec == Init /\ [][Next]_vars

(* ======================================================================= *)
(* Properties                                                              *)
(* ======================================================================= *)

\* a step in which the driver calls compute_calibration
ComputeStep ==
    /\ pc = "idle"
    /\ \/ pc' = "solving"
       \/ pc' = "idle" /\ outcome'.op = "compute_calibration"

\* a step in which the driver calls remove_sample
RemoveStep ==
    /\ pc = "idle"
    /\ pc' = "idle"
    /\ outcome'.op = "remove_sample"

\* a step in which a take_sample call ends with an exception
TakeFailStep ==
    /\ pc \notin {"idle", "solving"}
    /\ pc' = "idle"
    /\ outcome'.op = "take_sample"
    /\ outcome'.status = "raised"

\* C1: a compute_calibration call made with fewer than MIN_SAMPLES (= 2)
\* samples returns None, logs the warning with exactly MIN_SAMPLES - count as
\* the number still needed, and does not call the service.
C1_InsufficientSamples ==
    [][(ComputeStep /\ Len(samples) < 2)
          => /\ MIN_SAMPLES = 2
             /\ pc' = "idle"
             /\ outcome'.status = "returned"
             /\ outcome'.result = None
             /\ outcome'.log = "logwarn: more samples needed"
             /\ outcome'.needed = 2 - Len(samples)
             /\ nsolve' = 0
             /\ request' = None]_vars

C1_Witness ==
    /\ pc = "idle"
    /\ Len(samples) = 1
    /\ outcome.op = "compute_calibration"
    /\ outcome.log = "logwarn: more samples needed"
    /\ outcome.needed = 1

\* C2 as stated: with no removal so far, the number of samples between two
\* calls equals the number of take_sample calls that did not time out.
C2_CountIsCallsNotTimedOut ==
    (pc = "idle" /\ ~removed) => Len(samples) = passed

\* C2 amended: with no removal so far, the number of samples between two
\* calls equals the number of take_sample calls that neither timed out nor
\* failed in a lookup.
C2_CountIsSuccessfulCalls ==
    (pc = "idle" /\ ~removed) => Len(samples) = passed - unavailable

C2_Witness ==
    /\ pc = "idle"
    /\ ~removed
    /\ Len(samples) = 2
    /\ passed = 3
    /\ unavailable = 1
    /\ outcome.op = "take_sample"
    /\ outcome.exception = "tf.Exception"

\* C3: remove_sample(i) with i < 0 or i >= count leaves the samples as they
\* were, in the same order, and returns without an exception.
C3_RemoveOutOfRange ==
    [][(RemoveStep /\ (outcome'.index < 0 \/ outcome'.index >= Len(samples)))
          => /\ samples' = samples
             /\ outcome'.status = "returned"
             /\ outcome'.exception = "none"]_vars

C3_Witness ==
    /\ pc = "idle"
    /\ outcome.op = "remove_sample"
    /\ outcome.index = -1
    /\ outcome.status = "returned"
    /\ Len(samples) = 2
    /\ samples[1] # samples[2]

\* C4: remove_sample(i) with 0 <= i < count shortens the store by one; the
\* samples before position i stay and those after it move down by one.
C4_RemoveInRange ==
    [][(RemoveStep /\ 0 <= outcome'.index /\ outcome'.index < Len(samples))
          => /\ Len(samples') = Len(samples) - 1
             /\ \A j \in 1..(Len(samples) - 1) :
                   samples'[j] = IF j <= outcome'.index THEN samples[j]
                                                       ELSE samples[j + 1]]_vars

\* the middle one of three different samples has been removed
C4_Witness ==
    /\ pc = "idle"
    /\ outcome.op = "remove_sample"
    /\ outcome.index = 1
    /\ Len(samples) = 2
    /\ samples[1] # samples[2]

\* C5: a take_sample call that ends with an exception (a wait timing out or
\* a lookup failing) leaves the store as it was, no step of the call before
\* the final append touches the store, and every stored sample has both
\* halves.
C5_FailedTakeRecordsNothing ==
    [][/\ TakeFailStep => samples' = samples
       /\ pc \in {"wait_robot", "wait_optical", "lookup_robot", "lookup_optical"}
             => samples' = samples
       /\ \A i \in 1..Len(samples') :
             samples'[i].robot # None /\ samples'[i].optical # None]_vars

\* the optical lookup has failed after the robot lookup succeeded
C5_Witness ==
    /\ pc = "idle"
    /\ outcome.op = "take_sample"
    /\ outcome.status = "raised"
    /\ outcome.exception = "tf.LookupException"
    /\ Len(calls) = 4
    /\ Len(samples) = 1

\* C6: when the service call raises rospy.ServiceException, the call returns
\* None, logs the failure and leaves the samples as they were; a
\* compute_calibration called right after it sends the same two sequences.
C6_ServiceFailureKeepsSamples ==
    [][/\ (pc = "solving" /\ reply'.status = "rospy.ServiceException")
             => /\ pc' = "idle"
                /\ outcome'.op = "compute_calibration"
                /\ outcome'.status = "returned"
                /\ outcome'.result = None
                /\ outcome'.log = "logerr: Calibration failed"
                /\ samples' = samples
       /\ (ComputeStep /\ reply.status = "rospy.ServiceException")
             => /\ pc' = "solving"
                /\ request' = request]_vars

\* the retry after a failed call is with the service
C6_Witness ==
    /\ pc = "solving"
    /\ outcome.op = "compute_calibration"
    /\ outcome.log = "logerr: Calibration failed"
    /\ Len(samples) >= MIN_SAMPLES
    /\ Len(request[1].transforms) = Len(samples)

\* C7: no operation ends with an error escaping it: every failure is handed
\* to the caller as the call's return.
C7_NoUncontrolledAbort ==
    outcome.status = "returned"

\* C8: the robot-side lookup is (base_link_frame, tool_frame) with
\* eye_on_hand and (tool_frame, base_link_frame) without; the optical-side
\* lookup is always (optical_origin_frame, optical_target_frame).
C8_LookupDirection ==
    \A i \in 1..Len(calls) :
        calls[i].fn = "lookupTransform" =>
            \/ /\ i = 3
               /\ eye_on_hand => calls[i].source = "base_link" /\ calls[i].target = "tool0"
               /\ ~eye_on_hand => calls[i].source = "tool0" /\ calls[i].target = "base_link"
            \/ /\ i = 4
               /\ calls[i].source = "optical_origin"
               /\ calls[i].target = "optical_target"

C8_Witness ==
    /\ eye_on_hand
    /\ pc = "idle"
    /\ outcome.op = "take_sample"
    /\ outcome.status = "returned"
    /\ Len(calls) = 4
    /\ calls[3].fn = "lookupTransform"
    /\ calls[4].fn = "lookupTransform"

\* the two halves are the robot and the optical transform of one instant t
CapturedAt(s, t) ==
    /\ s.robot = IF eye_on_hand THEN << <<t, 0, 0>>, <<0, 0, 0, 1>> >>
                                ELSE << <<0 - t, 0, 0>>, <<0, 0, 0, 1>> >>
    /\ s.optical = << <<0, t, 0>>, <<0, 0, 0, 1>> >>

\* C9: within a take_sample call the time is read once, when the call
\* starts, and both waits and both lookups are given that time; every stored
\* sample has its two halves from one instant.
C9_OneTimestamp ==
    [][/\ (pc = "idle" /\ pc' = "wait_robot") => now' = clock
       /\ pc # "idle" => now' = now
       /\ \A i \in 1..Len(calls') : calls'[i].time = now'
       /\ \A i \in 1..Len(samples') :
             \E t \in StartTime..MaxTime : CapturedAt(samples'[i], t)]_vars

\* a sample was taken whose waits took time
C9_Witness ==
    /\ pc = "idle"
    /\ outcome.op = "take_sample"
    /\ outcome.status = "returned"
    /\ Len(calls) = 4
    /\ clock > now
    /\ Len(samples) >= 1
    /\ CapturedAt(samples[Len(samples)], now)

\* the message msg carries the seven numbers of the tf tuple tf_t
SameTransform(msg, tf_t) ==
    /\ msg.translation.x = tf_t[1][1]
    /\ msg.translation.y = tf_t[1][2]
    /\ msg.translation.z = tf_t[1][3]
    /\ msg.rotation.x = tf_t[2][1]
    /\ msg.rotation.y = tf_t[2][2]
    /\ msg.rotation.z = tf_t[2][3]
    /\ msg.rotation.w = tf_t[2][4]

\* C10: get_visp_samples yields two sequences as long as the store, the i-th
\* elements being the robot and the optical half of the i-th sample; the
\* "Different numbers" branch of compute_calibration is never taken.
C10_DrainAligned ==
    LET hand_world == get_visp_samples(samples)[1].transforms
        camera_marker == get_visp_samples(samples)[2].transforms
    IN  /\ Len(hand_world) = Len(samples)
        /\ Len(camera_marker) = Len(samples)
        /\ \A i \in 1..Len(samples) :
              /\ SameTransform(hand_world[i], samples[i].robot)
              /\ SameTransform(camera_marker[i], samples[i].optical)
        /\ outcome.log # "logerr: Different numbers of samples"

\* the store of a compute_calibration call holds different samples
C10_Witness ==
    /\ pc = "solving"
    /\ Len(samples) = 3
    /\ samples[1] # samples[2]
    /\ samples[2] # samples[3]
    /\ samples[1].robot # samples[1].optical

\* the transform tr of a result carries the seven numbers of the answer T
SameAnswer(tr, T) ==
    /\ tr.translation = <<T.translation.x, T.translation.y, T.translation.z>>
    /\ tr.rotation = <<T.rotation.x, T.rotation.y, T.rotation.z, T.rotation.w>>

\* C11: when the service answers a call with transform T, that call has
\* invoked the service exactly once, with two sequences as long as the store,
\* and returns a result with T as its transform and the configured
\* eye_on_hand, base_link_frame, tool_frame and optical_origin_frame.
C11_SuccessfulCalibration ==
    [][(pc = "solving" /\ reply'.status = "response")
          => /\ pc' = "idle"
             /\ Len(samples) >= MIN_SAMPLES
             /\ nsolve' = 1
             /\ Len(request) = 2
             /\ Len(request[1].transforms) = Len(samples)
             /\ Len(request[2].transforms) = Len(samples)
             /\ outcome'.op = "compute_calibration"
             /\ outcome'.status = "returned"
             /\ Len(outcome'.result) = 1
             /\ outcome'.result[1].eye_on_hand = eye_on_hand
             /\ outcome'.result[1].base_link_frame = "base_link"
             /\ outcome'.result[1].tool_frame = "tool0"
             /\ outcome'.result[1].optical_origin_frame = "optical_origin"
             /\ SameAnswer(outcome'.result[1].transform, reply'.effector_camera[1])]_vars

\* eye_on_hand false, two samples, the service answered the identity
C11_Witness ==
    /\ pc = "idle"
    /\ ~eye_on_hand
    /\ Len(samples) = 2
    /\ nsolve = 1
    /\ reply.status = "response"
    /\ reply.effector_camera[1].translation = [x |-> 0, y |-> 0, z |-> 0]
    /\ reply.effector_camera[1].rotation = [x |-> 0, y |-> 0, z |-> 0, w |-> 1]
    /\ outcome.result[1].eye_on_hand = FALSE
    /\ outcome.result[1].transform.translation = <<0, 0, 0>>
    /\ outcome.result[1].transform.rotation = <<0, 0, 0, 1>>

\* a step in which a compute_calibration call returns
ComputeReturnStep ==
    /\ pc \in {"idle", "solving"}
    /\ pc' = "idle"
    /\ outcome'.op = "compute_calibration"

\* C12: a compute_calibration call returns a result exactly when it was made
\* with at least MIN_SAMPLES samples and the service answered it; the result
\* then has all five fields, and in every other case the call returns None.
C12_ResultAllOrNothing ==
    [][ComputeReturnStep
          => /\ outcome'.result # None
                   <=> /\ pc = "solving"
                       /\ reply'.status = "response"
                       /\ Len(samples) >= MIN_SAMPLES
             /\ outcome'.result # None
                   => /\ Len(outcome'.result) = 1
                      /\ DOMAIN outcome'.result[1] =
                            {"eye_on_hand", "base_link_frame", "tool_frame",
                             "optical_origin_frame", "transform"}
                      /\ Len(outcome'.result[1].transform.translation) = 3
                      /\ Len(outcome'.result[1].transform.rotation) = 4]_vars

\* a result out of three samples
C12_Witness ==
    /\ pc = "idle"
    /\ eye_on_hand
    /\ Len(samples) = 3
    /\ reply.status = "response"
    /\ outcome.op = "compute_calibration"
    /\ outcome.result # None
    /\ outcome.result[1].transform.translation = <<1, 2, 3>>

\* C13: no call stays blocked for good: every take_sample and every
\* compute_calibration call gets back to its caller.
C13_EveryCallReturns ==
    pc # "blocked"

\* C14 as stated: the optical pair is waited for with a longer timeout than
\* the robot pair.
C14_OpticalTimeoutLonger ==
    (Len(calls) >= 2 /\ calls[2].fn = "waitForTransform")
        => calls[2].timeout > calls[1].timeout

\* C14 amended: take_sample waits for the robot pair first and the optical
\* pair second, each with a timeout of 10 seconds, so the two timeouts are
\* equal.
C14_EqualTimeouts ==
    /\ Len(calls) >= 1 =>
          /\ calls[1].fn = "waitForTransform"
          /\ {calls[1].source, calls[1].target} = {"base_link", "tool0"}
          /\ calls[1].timeout = 10
    /\ Len(calls) >= 2 =>
          /\ calls[2].fn = "waitForTransform"
          /\ {calls[2].source, calls[2].target} = {"optical_origin", "optical_target"}
          /\ calls[2].timeout = 10
          /\ calls[2].timeout = calls[1].timeout

\* the optical wait has run into its timeout
C14_Witness ==
    /\ pc = "idle"
    /\ Len(calls) = 2
    /\ results = <<"ok", "tf.Exception">>
    /\ clock >= now + 10

\* C15: the store gets shorter only in a remove_sample call with an index in
\* range, and no step of compute_calibration, whatever its outcome, changes
\* the store.
C15_NoImplicitClearing ==
    [][/\ Len(samples') < Len(samples)
             => /\ RemoveStep
                /\ 0 <= outcome'.index
                /\ outcome'.index < Len(samples)
       /\ (ComputeStep \/ pc = "solving") => samples' = samples]_vars

\* a calibration has succeeded after a removal and the three samples are
\* still there
C15_Witness ==
    /\ pc = "idle"
    /\ removed
    /\ Len(samples) = 3
    /\ outcome.op = "compute_calibration"
    /\ outcome.result # None
    /\ reply.status = "response"

\* C16: rospy.wait_for_service has completed exactly once, in the
\* constructor, in every state in which an operation can be called or is
\* running: no operation waits for the service again.
C16_ServiceWaitOnce ==
    service_waits = 1

\* a second compute_calibration call is with the service
C16_Witness ==
    /\ pc = "solving"
    /\ nsolve = 1
    /\ outcome.op = "compute_calibration"
    /\ outcome.result # None
    /\ service_waits = 1

\* the lifecycle state the specification derives from the sample count
Lifecycle(n) ==
    IF n = 0 THEN "Idle"
    ELSE IF n < MIN_SAMPLES THEN "Collecting"
    ELSE "Ready"

\* C17: a take_sample that returns adds exactly one sample (Idle to
\* Collecting, Collecting to Ready once MIN_SAMPLES is reached, Ready stays
\* Ready); a remove_sample with an index in range takes exactly one away
\* (Ready to Collecting below MIN_SAMPLES, Collecting to Idle); the service is
\* called only from Ready; a failed call leaves the count and its state.
C17_Lifecycle ==
    [][/\ (pc = "append" /\ pc' = "idle")
             => /\ Len(samples') = Len(samples) + 1
                /\ Lifecycle(Len(samples)) = "Idle"
                      => Lifecycle(Len(samples')) = "Collecting"
                /\ Lifecycle(Len(samples)) = "Collecting"
                      => (Lifecycle(Len(samples')) = "Ready"
                             <=> Len(samples') >= MIN_SAMPLES)
                /\ Lifecycle(Len(samples)) = "Ready"
                      => Lifecycle(Len(samples')) = "Ready"
       /\ (RemoveStep /\ 0 <= outcome'.index /\ outcome'.index < Len(samples))
             => /\ Len(samples') = Len(samples) - 1
                /\ Lifecycle(Len(samples)) = "Collecting"
                      => Lifecycle(Len(samples')) = "Idle"
                /\ Lifecycle(Len(samples)) = "Ready"
                      => (Lifecycle(Len(samples')) = "Collecting"
                             <=> Len(samples') < MIN_SAMPLES)
       /\ pc' = "solving" => Lifecycle(Len(samples)) = "Ready"
       /\ (ComputeReturnStep /\ outcome'.result = None)
             => /\ Len(samples') = Len(samples)
                /\ Lifecycle(Len(samples')) = Lifecycle(Len(samples))
       /\ TakeFailStep => Lifecycle(Len(samples')) = Lifecycle(Len(samples))]_vars

\* the second sample has just made the calibrator Ready
C17_Witness ==
    /\ pc = "idle"
    /\ outcome.op = "take_sample"
    /\ outcome.status = "returned"
    /\ ~removed
    /\ passed = 2
    /\ unavailable = 0
    /\ Len(samples) = 2
    /\ Lifecycle(Len(samples)) = "Ready"

\* the sequences are those of the robot halves and of the optical halves
RobotHalves(array) ==
    /\ Len(array.transforms) = Len(samples)
    /\ \A i \in 1..Len(samples) : SameTransform(array.transforms[i], samples[i].robot)

OpticalHalves(array) ==
    /\ Len(array.transforms) = Len(samples)
    /\ \A i \in 1..Len(samples) : SameTransform(array.transforms[i], samples[i].optical)

\* C18 as stated: the service is called with the robot halves first and the
\* optical halves second, the order in which get_visp_samples returns them.
C18_RobotHalvesFirst ==
    request # None
        => /\ RobotHalves(request[1])
           /\ OpticalHalves(request[2])

\* C18 amended: the service is called with the optical halves
\* (camera_marker_samples) first and the robot halves (hand_world_samples)
\* second, the reverse of the order in which get_visp_samples returns them.
C18_OpticalHalvesFirst ==
    request # None
        => /\ Len(request) = 2
           /\ OpticalHalves(request[1])
           /\ RobotHalves(request[2])
           /\ RobotHalves(get_visp_samples(samples)[1])
           /\ OpticalHalves(get_visp_samples(samples)[2])

\* the service is being called with two different samples
C18_Witness ==
    /\ pc = "solving"
    /\ eye_on_hand
    /\ Len(samples) = 2
    /\ samples[1] # samples[2]
    /\ request[1] # request[2]

\* C19: a compute_calibration call invokes the service at most once; a call
\* that follows another with no take_sample or remove_sample in between
\* sends the same two sequences; and when the service then gives the answer
\* it gave before, the call returns the result it returned before.
C19_NoRetrySameRequest ==
    [][/\ nsolve' <= 1
       /\ (pc = "solving" /\ pc' = "solving") => nsolve' = nsolve
       /\ (ComputeStep /\ request # None)
             => /\ pc' = "solving"
                /\ nsolve' = 1
                /\ request' = request
       /\ (/\ pc = "solving"
           /\ outcome.op = "compute_calibration"
           /\ outcome.result # None
           /\ reply'.status = "response"
           /\ SameAnswer(outcome.result[1].transform, reply'.effector_camera[1]))
             => outcome'.result = outcome.result]_vars

\* the second of two calls in a row is with the service; the first returned
\* a result out of the same two samples
C19_Witness ==
    /\ pc = "solving"
    /\ nsolve = 1
    /\ Len(samples) = 2
    /\ Len(request[1].transforms) = 2
    /\ outcome.op = "compute_calibration"
    /\ outcome.result # None
    /\ outcome.result[1].transform.translation = <<1, 2, 3>>

\* C20: the tf calls of a take_sample come in the order wait robot pair, wait
\* optical pair, lookup robot pair, lookup optical pair; a call is issued
\* only when every call before it succeeded; each lookup is on the frames and
\* at the time of the wait two places before it; and the sample is appended
\* only after all four succeeded.
C20_CallOrder ==
    [][/\ Len(calls') = Len(results')
       /\ Len(calls') <= 4
       /\ \A i \in 1..Len(calls') :
             /\ calls'[i].fn = IF i <= 2 THEN "waitForTransform" ELSE "lookupTransform"
             /\ {calls'[i].source, calls'[i].target} =
                   IF i \in {1, 3} THEN {"base_link", "tool0"}
                                   ELSE {"optical_origin", "optical_target"}
             /\ \A j \in 1..(i - 1) : results'[j] = "ok"
             /\ i >= 3 => /\ calls'[i].time = calls'[i - 2].time
                          /\ calls'[3].time = calls'[2].time
       /\ Len(samples') > Len(samples)
             => /\ calls' = calls
                /\ results = <<"ok", "ok", "ok", "ok">>]_vars

\* a sample has been appended after four successful calls
C20_Witness ==
    /\ pc = "idle"
    /\ ~eye_on_hand
    /\ outcome.op = "take_sample"
    /\ outcome.status = "returned"
    /\ results = <<"ok", "ok", "ok", "ok">>
    /\ Len(calls) = 4
    /\ Len(samples) = 2

====
